---- MODULE Spec2Model ----
(***************************************************************************)
(* Model of scripts/exhafs_launch.py: main() and the __main__ wrapper.      *)
(* The collaborators in hafs.launcher, produtil and the configuration      *)
(* object are external; each call is a step whose result is chosen from a  *)
(* small set, and every call is recorded in a log variable.                *)
(*                                                                         *)
(* A string is a sequence of symbols.  An identifier is a one-symbol       *)
(* string such as <<"09L">>; an option value is a string in which the      *)
(* symbol "," separates the identifiers.                                   *)
(***************************************************************************)
EXTENDS Integers, Sequences, FiniteSets, TLC

VARIABLES
    pc,             \* position in main() / __main__
    exitCode,       \* -1 while running, else the process exit code
    usagePrinted,   \* the usage text was printed
    cmdline,        \* the option part of sys.argv, one record per option
    nargs,          \* number of positional arguments
    argStid,        \* args[1]
    cycleOK,        \* to_datetime(args[0]) succeeds
    runEnvir,       \* os.environ.get('RUN_ENVIR','DEV')
    opts,           \* result of getopt.gnu_getopt: sequence of <<k, v>>
    optIdx,         \* next element of opts in the loop of line 146
    mslist, mblist, renumber, multi_sids,
    fake_stid, go_since_multistorm_sids,
    fakestorm_conf, global_storm_num,
    stids, moreopts, i, conf,
    priorityCalls,  \* calls of hafs.launcher.multistorm_priority
    parseCalls,     \* calls of multistorm_parse_args / parse_launch_args
    launches,       \* calls of hafs.launcher.launch
    sanityLog,      \* calls of conf.sanity_check(): position and outcome
    alerts,         \* positions for which a DBNAlert was sent
    messages,       \* calls of os.path.exists(message): position and outcome
    files,          \* files written, in order
    events          \* set_ecflow_event calls, in order

vars == <<pc, exitCode, usagePrinted, cmdline, nargs, argStid, cycleOK,
          runEnvir, opts, optIdx, mslist, mblist, renumber, multi_sids,
          fake_stid, go_since_multistorm_sids, fakestorm_conf,
          global_storm_num, stids, moreopts, i, conf, priorityCalls,
          parseCalls, launches, sanityLog, alerts, messages, files, events>>

inputVars == <<cmdline, nargs, argStid, cycleOK, runEnvir>>
optVars   == <<opts, optIdx, mslist, mblist, renumber>>
resVars   == <<multi_sids, fake_stid, go_since_multistorm_sids>>
loopVars  == <<fakestorm_conf, global_storm_num, stids, moreopts, i, conf>>
logVars   == <<priorityCalls, parseCalls, launches, sanityLog, alerts, messages,
               files, events>>

----------------------------------------------------------------------------
(* Bounds *)

MaxOpts    == 3   \* options on a command line of ArgCmdlines
MaxStorms  == 2   \* identifiers in the -m value of StormCmdlines
MaxWinners == 2   \* identifiers returned by the priority resolver

----------------------------------------------------------------------------
(* Strings *)

Comma   == ","
IdSyms  == {"09L", "18E"}
Ids     == {<<s>> : s \in IdSyms}
FakeId  == <<"00L">>
None    == <<"None">>

RECURSIVE SeqsUpTo(_, _)
SeqsUpTo(S, n) ==
    IF n = 0 THEN {<<>>}
    ELSE LET shorter == SeqsUpTo(S, n - 1)
         IN  shorter \cup {Append(s, x) : s \in {t \in shorter : Len(t) = n - 1}, x \in S}

\* a comma separated list of symbols of S: x , x , x
ListValues(S, n) ==
    {v \in SeqsUpTo(S \cup {Comma}, n) :
        /\ Len(v) % 2 = 1
        /\ \A k \in 1..Len(v) : (v[k] = Comma) <=> (k % 2 = 0)}

RECURSIVE split(_, _)
\* str.split(sep): the fields between the separators, empty fields kept
split(v, sep) ==
    IF \A k \in 1..Len(v) : v[k] # sep THEN <<v>>
    ELSE LET p == CHOOSE k \in 1..Len(v) :
                      /\ v[k] = sep
                      /\ \A j \in 1..(k - 1) : v[j] # sep
         IN  <<SubSeq(v, 1, p - 1)>> \o split(SubSeq(v, p + 1, Len(v)), sep)

Contains(s, x) == \E k \in 1..Len(s) : s[k] = x

\* str.upper() on the strings that occur
upper(s) ==
    CASE s = "nco"   -> "NCO"
      [] s = "dev"   -> "DEV"
      [] s = "hycom" -> "HYCOM"
      [] s = "ww3"   -> "WW3"
      [] OTHER       -> s

----------------------------------------------------------------------------
(* Command line *)

\* one option as written on the command line; an option without a value
\* (has = FALSE) has no token after it that gnu_getopt could take as its value
Option(name, has, arg) == [name |-> name, has |-> has, arg |-> arg]

short_opts == {"-m", "-M", "-n"}
long_opts  == {"--multistorms", "--multibasins", "--renumber"}

\* "m:M:n" and the "=" suffix of the long options: which options take a value
TakesArg(name) == name \in {"-m", "-M", "--multistorms", "--multibasins", "--renumber"}

\* getopt.gnu_getopt accepts the option list
GetoptAccepts(c) ==
    \A k \in 1..Len(c) :
        /\ c[k].name \in short_opts \cup long_opts
        /\ c[k].has = TakesArg(c[k].name)

\* the (k, v) pairs gnu_getopt returns; v is '' for an option without value
GetoptResult(c) == [k \in 1..Len(c) |-> <<c[k].name, IF c[k].has THEN c[k].arg ELSE <<>> >>]

----------------------------------------------------------------------------
(* Configuration objects returned by hafs.launcher.launch *)

NoConf == [storm_num |-> 0]

ConfSettings ==
    [run_gsi : BOOLEAN, run_ocean : BOOLEAN, ocean_model : {"HYCOM", "hycom", "OTHER"},
     run_wave : BOOLEAN, wave_model : {"WW3", "OTHER"},
     startfile : BOOLEAN, sane : BOOLEAN]

MakeConf(set, stid, fakestorm, storm_num) ==
    [storm_num |-> storm_num, stid |-> stid, fakestorm |-> fakestorm,
     run_gsi |-> set.run_gsi, run_ocean |-> set.run_ocean,
     ocean_model |-> set.ocean_model, run_wave |-> set.run_wave,
     wave_model |-> set.wave_model, startfile |-> set.startfile,
     sane |-> set.sane]

\* one call of hafs.launcher.launch
LaunchCall(stid, moreopt, fakestorm, fsconf, storm_num) ==
    [stid |-> stid, moreopt |-> moreopt, fakestorm |-> fakestorm,
     fakestorm_conf |-> fsconf, storm_num |-> storm_num]

----------------------------------------------------------------------------
(* __main__: leaving the process *)

\* sys.exit(2) in usage(logger): the usage text is printed first
UsageExit ==
    /\ usagePrinted' = TRUE
    /\ exitCode' = 2
    /\ pc' = "exit"

\* an exception reaches the except clause of __main__: sys.exit(2)
ExceptionExit ==
    /\ exitCode' = 2
    /\ pc' = "exit"
    /\ UNCHANGED usagePrinted

----------------------------------------------------------------------------
(* main(): lines 124-154, the command line *)

\* lines 128-132: gnu_getopt; on GetoptError usage() is called with a string
\* in place of the logger, so logger.critical raises before anything is printed
Getopt ==
    /\ pc = "getopt"
    /\ IF GetoptAccepts(cmdline)
       THEN /\ opts' = GetoptResult(cmdline)
            /\ pc' = "checkargs"
            /\ UNCHANGED <<exitCode, usagePrinted>>
       ELSE /\ ExceptionExit
            /\ UNCHANGED opts
    /\ UNCHANGED <<inputVars, optIdx, mslist, mblist, renumber, resVars,
                   loopVars, logVars>>

\* lines 135-144: the number of positional arguments, the cycle
CheckArgs ==
    /\ pc = "checkargs"
    /\ IF nargs < 4 THEN UsageExit
       ELSE IF ~cycleOK THEN ExceptionExit
       ELSE /\ pc' = "opts"
            /\ UNCHANGED <<exitCode, usagePrinted>>
    /\ UNCHANGED <<inputVars, optVars, resVars, loopVars, logVars>>

\* variant of lines 148, 150: the list is replaced, not extended
ExtendListReplaced(list, v) == split(v, Comma)

\* lines 148, 150: list.extend(v.split(","))
ExtendList(list, v) == list \o split(v, Comma)

\* variant of line 147: -n is taken for an option that lists storms
StormsOptionsAndFlag == {"-m", "--multistorms", "-n"}

\* line 147: the options whose values are storm identifiers
StormsOptions == {"-m", "--multistorms"}

\* lines 146-154: one pass of the loop over opts
OptLoop ==
    /\ pc = "opts"
    /\ optIdx <= Len(opts)
    /\ LET k == opts[optIdx][1]
           v == opts[optIdx][2]
       IN  /\ mslist' = IF k \in StormsOptions
                        THEN ExtendList(mslist, v) ELSE mslist
           /\ mblist' = IF k \in {"-M", "--multibasins"}
                        THEN ExtendList(mblist, v) ELSE mblist
           /\ renumber' = IF k \in {"-n", "--renumber"} THEN FALSE ELSE renumber
    /\ optIdx' = optIdx + 1
    /\ UNCHANGED <<pc, exitCode, usagePrinted, inputVars, opts, resVars,
                   loopVars, logVars>>

----------------------------------------------------------------------------
(* main(): lines 156-183, the identifiers of a multistorm run *)

\* line 144
InitialRenumber == TRUE

\* variant of lines 173-174: the -n flag is passed on as it is
PriorityRenumberAsGiven(sids, rn) == rn

\* lines 173-174: the renumber value given to multistorm_priority
PriorityRenumber(sids, rn) == IF sids # <<>> THEN TRUE ELSE rn

RECURSIVE MergeSids(_, _)
\* lines 179-181: append the storms that are not in the list yet
MergeSids(sids, bstorms) ==
    IF bstorms = <<>> THEN sids
    ELSE MergeSids(IF Contains(sids, Head(bstorms)) THEN sids
                   ELSE Append(sids, Head(bstorms)),
                   Tail(bstorms))

\* what multistorm_priority can return: lists of identifiers, and the lists
\* among them that name no identifier twice
PriorityResults == SeqsUpTo(Ids, MaxWinners)
DistinctResults ==
    {l \in PriorityResults : \A j, k \in 1..Len(l) : l[j] = l[k] => j = k}

\* one call of multistorm_priority
PriorityCall(basins, rn, returned, result) ==
    [basins |-> basins, renumber |-> rn, returned |-> returned, result |-> result]

\* lines 156-168 without a basin list
ResolveStorms ==
    /\ pc = "opts"
    /\ optIdx > Len(opts)
    /\ mblist = <<>>
    /\ multi_sids' = mslist
    /\ go_since_multistorm_sids' = (mslist # <<>>)
    /\ pc' = "parse"
    /\ UNCHANGED <<exitCode, usagePrinted, inputVars, optVars, fake_stid,
                   loopVars, logVars>>

\* lines 156-183 with a basin list: multistorm_priority returns its storms.
\* multi_sids and mslist are one list object when -m was given.
ResolveBasins(winners) ==
    /\ pc = "opts"
    /\ optIdx > Len(opts)
    /\ mblist # <<>>
    /\ \E bstorms \in winners :
          /\ multi_sids' = MergeSids(mslist, bstorms)
          /\ mslist' = IF mslist # <<>> THEN MergeSids(mslist, bstorms) ELSE mslist
          /\ priorityCalls' = Append(priorityCalls,
                 PriorityCall(mblist, PriorityRenumber(mslist, renumber), TRUE, bstorms))
    /\ renumber' = PriorityRenumber(mslist, renumber)
    /\ go_since_multistorm_sids' = TRUE
    /\ pc' = "parse"
    /\ UNCHANGED <<exitCode, usagePrinted, inputVars, opts, optIdx, mblist,
                   fake_stid, loopVars, parseCalls, launches, sanityLog,
                   alerts, messages, files, events>>

\* line 177: multistorm_priority gives up through the usage callback
ResolveFails ==
    /\ pc = "opts"
    /\ optIdx > Len(opts)
    /\ mblist # <<>>
    /\ renumber' = PriorityRenumber(mslist, renumber)
    /\ priorityCalls' = Append(priorityCalls,
           PriorityCall(mblist, PriorityRenumber(mslist, renumber), FALSE, <<>>))
    /\ multi_sids' = mslist
    /\ go_since_multistorm_sids' = TRUE
    /\ UsageExit
    /\ UNCHANGED <<inputVars, opts, optIdx, mslist, mblist, fake_stid, loopVars,
                   parseCalls, launches, sanityLog, alerts, messages, files, events>>

----------------------------------------------------------------------------
(* main(): lines 185-207, parsing the arguments, the fake storm *)

\* variant of line 186: the counter starts at 1
InitialStormNumOne == 1

\* line 186
InitialStormNum == 0

\* variant of line 194: the fake storm leaves the counter at 0
FakeStormNumZero == 0

\* line 194
FakeStormNum == 1

\* the override sets of a list of n entries; entry k stands for the k-th set
OptionSets(n) == [k \in 1..n |-> k]

\* what multistorm_parse_args can return for the identifiers it is given:
\* the identifiers in their order, the fake storm last when it is listed
\* (lines 195-196: the last override set belongs to the fake storm), and a
\* list of override sets that is as long, one longer or one shorter
MultistormParseResults(sids) ==
    UNION {{[stids |-> l, fake_stid |-> FakeId, moreopts |-> OptionSets(n)] :
               n \in {m \in {Len(l) - 1, Len(l), Len(l) + 1} : m >= 0}} :
           l \in {sids, Append(sids, FakeId)}}

\* lines 188-194: multistorm_parse_args returns
ParseMultistorm ==
    /\ pc = "parse"
    /\ go_since_multistorm_sids
    /\ parseCalls' = Append(parseCalls, multi_sids)
    /\ \E r \in MultistormParseResults(multi_sids) :
          /\ stids' = r.stids
          /\ fake_stid' = r.fake_stid
          /\ moreopts' = r.moreopts
    /\ global_storm_num' = FakeStormNum
    /\ pc' = "fakelaunch"
    /\ UNCHANGED <<exitCode, usagePrinted, inputVars, optVars, multi_sids,
                   go_since_multistorm_sids, fakestorm_conf, i, conf,
                   priorityCalls, launches, sanityLog, alerts, messages, files, events>>

\* lines 201-207: parse_launch_args returns
ParseSingle ==
    /\ pc = "parse"
    /\ ~go_since_multistorm_sids
    /\ parseCalls' = Append(parseCalls, <<argStid>>)
    /\ stids' = <<argStid>>
    /\ moreopts' = OptionSets(1)
    /\ pc' = "loop"
    /\ UNCHANGED <<exitCode, usagePrinted, inputVars, optVars, resVars,
                   fakestorm_conf, global_storm_num, i, conf,
                   priorityCalls, launches, sanityLog, alerts, messages, files, events>>

\* lines 191, 202: the argument parser gives up through the usage callback
ParseFails ==
    /\ pc = "parse"
    /\ parseCalls' = Append(parseCalls,
                            IF go_since_multistorm_sids THEN multi_sids ELSE <<argStid>>)
    /\ UsageExit
    /\ UNCHANGED <<inputVars, optVars, resVars, loopVars,
                   priorityCalls, launches, sanityLog, alerts, messages, files, events>>

\* lines 197-199: the configuration of the fake storm
LaunchFake(settings) ==
    /\ pc = "fakelaunch"
    /\ IF moreopts = <<>> THEN
            \* moreopts[-1] of an empty list: IndexError
            /\ ExceptionExit
            /\ UNCHANGED <<fakestorm_conf, launches>>
       ELSE /\ launches' = Append(launches,
                   LaunchCall(fake_stid, moreopts[Len(moreopts)], TRUE, NoConf,
                              global_storm_num))
            /\ \E set \in settings :
                  fakestorm_conf' = MakeConf(set, fake_stid, TRUE, global_storm_num)
            /\ pc' = "loop"
            /\ UNCHANGED <<exitCode, usagePrinted>>
    /\ UNCHANGED <<inputVars, optVars, resVars, global_storm_num, stids,
                   moreopts, i, conf, priorityCalls, parseCalls, sanityLog,
                   alerts, messages, files, events>>

\* lines 197, 215: hafs.launcher.launch raises
LaunchRaises ==
    /\ \/ pc = "fakelaunch" /\ moreopts # <<>> /\ UNCHANGED global_storm_num
       \/ /\ pc = "loop" /\ i <= Len(stids) /\ stids[i] # fake_stid
          /\ i <= Len(moreopts)
          /\ global_storm_num' = global_storm_num + 1
    /\ launches' = Append(launches,
          IF pc = "fakelaunch"
          THEN LaunchCall(fake_stid, moreopts[Len(moreopts)], TRUE, NoConf,
                          global_storm_num)
          ELSE LaunchCall(stids[i], moreopts[i], FALSE, fakestorm_conf,
                          global_storm_num + 1))
    /\ ExceptionExit
    /\ UNCHANGED <<inputVars, optVars, resVars, fakestorm_conf, stids,
                   moreopts, i, conf, priorityCalls, parseCalls, sanityLog,
                   alerts, messages, files, events>>

----------------------------------------------------------------------------
(* main(): lines 212-246, the loop over the storms *)

\* variant of line 213: the counter advances by two
NextStormNumTwo(n) == n + 2

\* variant of line 213: the counter is not advanced
NextStormNumSame(n) == n

\* line 213
NextStormNum(n) == n + 1

\* variant of line 214: every storm of the list is launched
IsRealStormAlways(stid, fake) == TRUE

\* line 214: this storm gets a configuration of its own
IsRealStorm(stid, fake) == stid # fake

\* variant of line 215: every storm gets the last override set
StormOverridesLast(list, pos) == list[Len(list)]

\* line 215: moreopts[i]
StormOverrides(list, pos) == list[pos]

\* lines 212-220: the configuration of storm i
LoopLaunch(settings) ==
    /\ pc = "loop"
    /\ i <= Len(stids)
    /\ global_storm_num' = NextStormNum(global_storm_num)
    /\ IF IsRealStorm(stids[i], fake_stid) THEN
            IF i > Len(moreopts) THEN
                \* moreopts[i] beyond the list: IndexError
                /\ ExceptionExit
                /\ UNCHANGED <<conf, launches>>
            ELSE
                /\ launches' = Append(launches,
                       LaunchCall(stids[i], StormOverrides(moreopts, i), FALSE, fakestorm_conf,
                                  NextStormNum(global_storm_num)))
                /\ \E set \in settings :
                      conf' = MakeConf(set, stids[i], FALSE,
                                       NextStormNum(global_storm_num))
                /\ pc' = "sanity"
                /\ UNCHANGED <<exitCode, usagePrinted>>
       ELSE /\ conf' = fakestorm_conf
            /\ pc' = "sanity"
            /\ UNCHANGED <<exitCode, usagePrinted, launches>>
    /\ UNCHANGED <<inputVars, optVars, resVars, fakestorm_conf, stids,
                   moreopts, i, priorityCalls, parseCalls, sanityLog,
                   alerts, messages, files, events>>

\* variant of lines 222-246: the alert is sent after the holdvars files
StepAfterAlertLate(step) ==
    CASE step = "sanity" -> "holdvars"
      [] step = "holdvars" -> "holdvars2"
      [] step = "holdvars2" -> "alert"
      [] step = "alert" -> "startfile"
      [] step = "startfile" -> "loop"

\* lines 222-246: the statements of one pass that follow the configuration,
\* in their order; after the last one the for loop takes the next storm
StepAfter(step) ==
    CASE step = "sanity" -> "alert"
      [] step = "alert" -> "holdvars"
      [] step = "holdvars" -> "holdvars2"
      [] step = "holdvars2" -> "startfile"
      [] step = "startfile" -> "loop"

\* variant of line 222: a failed check is recorded and the run goes on
SanityCheckIgnored ==
    /\ pc = "sanity"
    /\ sanityLog' = Append(sanityLog, [pos |-> i, passed |-> conf.sane])
    /\ pc' = "alert"
    /\ UNCHANGED <<exitCode, usagePrinted, inputVars, optVars, resVars,
                   loopVars, priorityCalls, parseCalls, launches, alerts, messages,
                   files, events>>

\* line 222: conf.sanity_check() raises when the check fails
SanityCheck ==
    /\ pc = "sanity"
    /\ sanityLog' = Append(sanityLog, [pos |-> i, passed |-> conf.sane])
    /\ IF conf.sane
       THEN /\ pc' = StepAfter("sanity")
            /\ UNCHANGED <<exitCode, usagePrinted>>
       ELSE ExceptionExit
    /\ UNCHANGED <<inputVars, optVars, resVars, loopVars, priorityCalls,
                   parseCalls, launches, alerts, messages, files, events>>

\* line 224 (and line 121)
IsNCO(envir) == upper(envir) = "NCO"

\* one call of os.path.exists(message)
MessageCheck(pos, exists) == [pos |-> pos, exists |-> exists]

\* variant of lines 224-229: the alert is sent whether or not the file exists
AlertWithoutFile ==
    /\ pc = "alert"
    /\ IF IsNCO(runEnvir)
       THEN \E exists \in BOOLEAN :
               /\ messages' = Append(messages, MessageCheck(i, exists))
               /\ alerts' = Append(alerts, i)
       ELSE UNCHANGED <<alerts, messages>>
    /\ pc' = StepAfter("alert")
    /\ UNCHANGED <<exitCode, usagePrinted, inputVars, optVars, resVars,
                   loopVars, priorityCalls, parseCalls, launches, sanityLog,
                   files, events>>

\* lines 224-229: the alert of an operational run, when the message file exists
Alert ==
    /\ pc = "alert"
    /\ IF IsNCO(runEnvir)
       THEN \E exists \in BOOLEAN :
               /\ messages' = Append(messages, MessageCheck(i, exists))
               /\ alerts' = IF exists THEN Append(alerts, i) ELSE alerts
       ELSE UNCHANGED <<alerts, messages>>
    /\ pc' = StepAfter("alert")
    /\ UNCHANGED <<exitCode, usagePrinted, inputVars, optVars, resVars,
                   loopVars, priorityCalls, parseCalls, launches, sanityLog,
                   files, events>>

\* lines 231, 236: the two holdvars paths of a configuration
HoldvarsPath(c)  == <<"com", "stormlabel", c.storm_num>>
HoldvarsPath2(c) == <<"com", "out_prefix.RUN", c.storm_num>>

\* conf.make_holdvars()
make_holdvars(c) == <<"holdvars of", c.storm_num>>

\* line 244: startdata filled in, with holdvars=holdvars
StartContents(c, holdvars) == <<"startdata of", c.storm_num, holdvars>>

\* variant of line 244: the start file names the second holdvars file
StartfileHoldvars2(c) == HoldvarsPath2(c)

\* line 244: holdvars=holdvars, the path of line 231
StartfileHoldvars(c) == HoldvarsPath(c)

File(kind, pos, path, text) == [kind |-> kind, pos |-> pos, path |-> path, text |-> text]

\* lines 231-234
WriteHoldvars ==
    /\ pc = "holdvars"
    /\ files' = Append(files, File("holdvars", i, HoldvarsPath(conf), make_holdvars(conf)))
    /\ pc' = StepAfter("holdvars")
    /\ UNCHANGED <<exitCode, usagePrinted, inputVars, optVars, resVars,
                   loopVars, priorityCalls, parseCalls, launches, sanityLog,
                   alerts, messages, events>>

\* lines 236-239
WriteHoldvars2 ==
    /\ pc = "holdvars2"
    /\ files' = Append(files, File("holdvars2", i, HoldvarsPath2(conf), make_holdvars(conf)))
    /\ pc' = StepAfter("holdvars2")
    /\ UNCHANGED <<exitCode, usagePrinted, inputVars, optVars, resVars,
                   loopVars, priorityCalls, parseCalls, launches, sanityLog,
                   alerts, messages, events>>

\* lines 241-246, and the step of the for loop to the next storm
WriteStartfile ==
    /\ pc = "startfile"
    /\ files' = IF conf.startfile
                THEN Append(files, File("startfile", i, <<"startfile", conf.storm_num>>,
                                        StartContents(conf, StartfileHoldvars(conf))))
                ELSE files
    /\ i' = i + 1
    /\ pc' = StepAfter("startfile")
    /\ UNCHANGED <<exitCode, usagePrinted, inputVars, optVars, resVars,
                   fakestorm_conf, global_storm_num, stids, moreopts, conf,
                   priorityCalls, parseCalls, launches, sanityLog, alerts, messages, events>>

\* variant of lines 233, 238, 245: a failed write is skipped
WriteSkipped ==
    /\ pc \in {"holdvars", "holdvars2"} \/ (pc = "startfile" /\ conf.startfile)
    /\ pc' = CASE pc = "holdvars" -> "holdvars2"
              [] pc = "holdvars2" -> "startfile"
              [] OTHER -> "loop"
    /\ i' = IF pc = "startfile" THEN i + 1 ELSE i
    /\ UNCHANGED <<exitCode, usagePrinted, inputVars, optVars, resVars,
                   fakestorm_conf, global_storm_num, stids, moreopts, conf,
                   logVars>>

\* lines 233, 238, 245: open() or write() raises
WriteRaises ==
    /\ pc \in {"holdvars", "holdvars2"} \/ (pc = "startfile" /\ conf.startfile)
    /\ ExceptionExit
    /\ UNCHANGED <<inputVars, optVars, resVars, loopVars, logVars>>

----------------------------------------------------------------------------
(* main(): lines 248-260, the ecflow events; __main__ *)

\* line 248
Gsi(c) == c.run_gsi

\* lines 252-253
Hycom(c) == c.run_ocean /\ upper(c.ocean_model) = "HYCOM"

\* lines 257-258
Wave(c) == c.run_wave /\ upper(c.wave_model) = "WW3"

\* variant of lines 248-258: the flags of the fake storm's configuration
FlagConfFake == IF fakestorm_conf # NoConf THEN fakestorm_conf ELSE conf

\* the configuration the flags are read from: the conf of the last pass
FlagConf == conf

\* line 248 when the loop body never ran: conf is not bound (NameError)
NoStorms ==
    /\ pc = "loop"
    /\ i > Len(stids)
    /\ conf = NoConf
    /\ ExceptionExit
    /\ UNCHANGED <<inputVars, optVars, resVars, loopVars, logVars>>

\* lines 248-250
EventGsi ==
    /\ pc = "loop"
    /\ i > Len(stids)
    /\ conf # NoConf
    /\ events' = IF Gsi(FlagConf) THEN Append(events, "Analysis") ELSE events
    /\ pc' = "ocean"
    /\ UNCHANGED <<exitCode, usagePrinted, inputVars, optVars, resVars,
                   loopVars, priorityCalls, parseCalls, launches, sanityLog,
                   alerts, messages, files>>

\* lines 252-255
EventOcean ==
    /\ pc = "ocean"
    /\ events' = IF Hycom(FlagConf) THEN Append(events, "Ocean") ELSE events
    /\ pc' = "wave"
    /\ UNCHANGED <<exitCode, usagePrinted, inputVars, optVars, resVars,
                   loopVars, priorityCalls, parseCalls, launches, sanityLog,
                   alerts, messages, files>>

\* lines 257-260
EventWave ==
    /\ pc = "wave"
    /\ events' = IF Wave(FlagConf) THEN Append(events, "Wave") ELSE events
    /\ pc' = "completed"
    /\ UNCHANGED <<exitCode, usagePrinted, inputVars, optVars, resVars,
                   loopVars, priorityCalls, parseCalls, launches, sanityLog,
                   alerts, messages, files>>

\* line 267 and the end of the script: exit code 0
Completed ==
    /\ pc = "completed"
    /\ exitCode' = 0
    /\ pc' = "exit"
    /\ UNCHANGED <<usagePrinted, inputVars, optVars, resVars, loopVars, logVars>>

----------------------------------------------------------------------------
(* Specifications *)

\* comma separated lists of one to n symbols of S
Lists(S, n) == ListValues(S, 2 * n - 1)

A == "09L"
B == "18E"

\* command lines of at most one -m and one -M option
StormCmdlines ==
    LET ms == {Option("-m", TRUE, v) : v \in Lists(IdSyms, MaxStorms)}
        mb == Option("--multibasins", TRUE, <<"L">>)
    IN  {<<mb>>, <<Option("-x", FALSE, <<>>)>>}
        \cup {<<m>> : m \in ms} \cup {<<m, mb>> : m \in ms}

\* command lines of up to MaxOpts options
ArgOptions ==
    {Option("-m", TRUE, <<A, Comma, A>>), Option("--multistorms", TRUE, <<B>>),
     Option("-M", TRUE, <<"L", Comma, "E">>),
     Option("-n", FALSE, <<>>), Option("--renumber", FALSE, <<>>),
     Option("-x", FALSE, <<>>)}
ArgCmdlines == SeqsUpTo(ArgOptions, MaxOpts)

\* command lines of the three modes
ModeCmdlines ==
    {<<>>, <<Option("-m", TRUE, <<A>>)>>,
     <<Option("-M", TRUE, <<"L">>)>>, <<Option("-x", FALSE, <<>>)>>}

\* the settings launch() can come back with: everything on or everything off
FewSettings ==
    {set \in ConfSettings :
        /\ set.ocean_model = "HYCOM" /\ set.wave_model = "WW3"
        /\ set.run_ocean = set.run_gsi /\ set.run_wave = set.run_gsi
        /\ set.startfile = set.run_gsi
        /\ ~set.sane => set.run_gsi}

\* one good configuration and one that fails its sanity check
TwoSettings == {set \in FewSettings : set.run_gsi}

\* every combination of the flags read after the loop
FlagSettings ==
    {set \in ConfSettings :
        /\ set.sane /\ ~set.startfile
        /\ set.ocean_model = "hycom" => set.run_ocean} \cup TwoSettings

InitWith(cmdlines, stormids, envirs) ==
    /\ pc = "getopt"
    /\ exitCode = -1
    /\ usagePrinted = FALSE
    /\ cmdline \in cmdlines
    /\ nargs \in {3, 4}
    /\ argStid \in stormids
    /\ cycleOK \in BOOLEAN
    /\ runEnvir \in envirs
    /\ opts = <<>>
    /\ optIdx = 1
    /\ mslist = <<>>
    /\ mblist = <<>>
    /\ renumber = InitialRenumber
    /\ multi_sids = <<>>
    /\ fake_stid = None
    /\ go_since_multistorm_sids = FALSE
    /\ fakestorm_conf = NoConf
    /\ global_storm_num = InitialStormNum
    /\ stids = <<>>
    /\ moreopts = <<>>
    /\ i = 1
    /\ conf = NoConf
    /\ priorityCalls = <<>>
    /\ parseCalls = <<>>
    /\ launches = <<>>
    /\ sanityLog = <<>>
    /\ alerts = <<>>
    /\ messages = <<>>
    /\ files = <<>>
    /\ events = <<>>

NextWith(settings, winners) ==
    \/ Getopt
    \/ CheckArgs
    \/ OptLoop
    \/ ResolveStorms
    \/ ResolveBasins(winners)
    \/ ResolveFails
    \/ ParseMultistorm
    \/ ParseSingle
    \/ ParseFails
    \/ LaunchFake(settings)
    \/ LaunchRaises
    \/ LoopLaunch(settings)
    \/ SanityCheck
    \/ Alert
    \/ WriteHoldvars
    \/ WriteHoldvars2
    \/ WriteStartfile
    \/ WriteRaises
    \/ NoStorms
    \/ EventGsi
    \/ EventOcean
    \/ EventWave
    \/ Completed

Init == \/ InitWith({<<>>, <<Option("-n", FALSE, <<>>)>>}, Ids, {"nco"})
        \/ InitWith(StormCmdlines, {<<B>>}, {"nco"})
Next == NextWith(FewSettings, DistinctResults)
Spec == Init /\ [][Next]_vars

InitArgs == InitWith(ArgCmdlines, {<<B>>}, {"DEV"})
NextArgs == NextWith(TwoSettings, PriorityResults)
SpecArgs == InitArgs /\ [][NextArgs]_vars

\* RUN_ENVIR: unset (DEV), development and operational values
Envirs == {"DEV", "dev", "NCO", "nco"}

InitAlert == InitWith(ModeCmdlines, {<<B>>}, Envirs)
NextAlert == NextWith(FewSettings, DistinctResults)
SpecAlert == InitAlert /\ [][NextAlert]_vars

\* the storm lists of Spec in development runs
InitStorms == InitWith(StormCmdlines \cup {<<>>}, {<<B>>}, {"DEV"})
NextStorms == NextWith(TwoSettings, DistinctResults)
SpecStorms == InitStorms /\ [][NextStorms]_vars

InitEvents == InitWith(ModeCmdlines, {<<B>>}, {"DEV"})
NextEvents == NextWith(FlagSettings, DistinctResults)
SpecEvents == InitEvents /\ [][NextEvents]_vars

----------------------------------------------------------------------------
(* Properties: sequence numbers *)

\* -m/--multistorms or -M/--multibasins is on the command line
MultiOptionGiven ==
    \E k \in 1..Len(cmdline) :
        cmdline[k].name \in {"-m", "--multistorms", "-M", "--multibasins"}

FakeLaunches == {k \in 1..Len(launches) : launches[k].fakestorm}
RealLaunches == {k \in 1..Len(launches) : ~launches[k].fakestorm}

\* C1 as stated: in single-entity mode the entity set has one member, its
\* launch is called with storm_num 2, and no placeholder configuration is
\* created.
C1_SingleStormNumTwo ==
    (~MultiOptionGiven /\ launches # <<>>) =>
        /\ Len(stids) = 1
        /\ \A k \in 1..Len(launches) :
              ~launches[k].fakestorm /\ launches[k].storm_num = 2
        /\ fakestorm_conf = NoConf

\* C1 amended: in single-entity mode the entity set has exactly one member,
\* args[1]; its launch is the only one, it is called with storm_num 1 and
\* without a placeholder configuration; fakestorm=True is never launched and
\* fakestorm_conf stays None.
C1_SingleStormNumOne ==
    ~MultiOptionGiven =>
        /\ fakestorm_conf = NoConf
        /\ fake_stid = None
        /\ Len(launches) <= 1
        /\ stids \in {<<>>, <<argStid>>}
        /\ launches # <<>> => stids = <<argStid>>
        /\ \A k \in 1..Len(launches) :
              /\ ~launches[k].fakestorm
              /\ launches[k].stid = argStid
              /\ launches[k].fakestorm_conf = NoConf
              /\ launches[k].storm_num = 1

\* a single-entity run has launched its storm
C1_Witness ==
    /\ ~MultiOptionGiven
    /\ Len(launches) = 1
    /\ pc = "sanity"
    /\ conf.storm_num = 1

\* C2: the first launch of a real storm gets storm_num 1 when no placeholder
\* was launched and 2 when one was; the placeholder is launched with 1.
C2_FirstStormNum ==
    /\ \A k \in FakeLaunches : launches[k].storm_num = 1
    /\ \A k \in RealLaunches :
          (\A j \in RealLaunches : k <= j) =>
              launches[k].storm_num = IF FakeLaunches = {} THEN 1 ELSE 2

\* a placeholder and a first real storm have been launched
C2_Witness ==
    /\ FakeLaunches # {}
    /\ \E k \in RealLaunches : launches[k].storm_num = 2

\* C3: in a multistorm run the first launch is the placeholder's, with
\* fakestorm=True and storm_num 1; the real storms follow in the order of
\* the entity list, the k-th with storm_num k+1, and each is given the
\* placeholder's configuration as fakestorm_conf.
C3_MultistormOrder ==
    (MultiOptionGiven /\ launches # <<>>) =>
        /\ launches[1].fakestorm
        /\ launches[1].stid = fake_stid
        /\ launches[1].storm_num = 1
        /\ \A k \in 2..Len(launches) :
              /\ ~launches[k].fakestorm
              /\ k - 1 <= Len(stids)
              /\ launches[k].stid = stids[k - 1]
              /\ launches[k].stid # fake_stid
              /\ launches[k].storm_num = k
              /\ launches[k].fakestorm_conf = fakestorm_conf
              /\ fakestorm_conf # NoConf
              /\ fakestorm_conf.storm_num = 1

\* the placeholder and two real storms have been launched
C3_Witness ==
    /\ MultiOptionGiven
    /\ Len(launches) = 3
    /\ launches[3].storm_num = 3
    /\ launches[2].stid # launches[3].stid

\* C4: the sequence numbers of the launches of one run are strictly
\* increasing in the order of the launches, hence pairwise distinct.
C4_StormNumIncreasing ==
    \A j, k \in 1..Len(launches) :
        j < k => launches[j].storm_num < launches[k].storm_num

\* three launches, in a run whose entity list names the placeholder itself
C4_Witness ==
    /\ Len(launches) = 3
    /\ Contains(stids, fake_stid)
    /\ pc = "sanity"
    /\ conf = fakestorm_conf

----------------------------------------------------------------------------
(* Properties: failures, artifacts and events *)

HasFile(kind, k) == \E n \in 1..Len(files) : files[n].kind = kind /\ files[n].pos = k

\* storm k passed its sanity check and both holdvars files were written
Processed(k) ==
    /\ \E n \in 1..Len(sanityLog) : sanityLog[n].pos = k /\ sanityLog[n].passed
    /\ HasFile("holdvars", k)
    /\ HasFile("holdvars2", k)

\* C5: when the sanity check of the storm at position k fails, the process
\* has ended with exit code 2; no file and no alert exists for position k or
\* a later one, no later storm was launched, and the holdvars files of the
\* positions before k are written.
C5_SanityFailureAborts ==
    \A n \in 1..Len(sanityLog) :
        ~sanityLog[n].passed =>
            LET k == sanityLog[n].pos
            IN  /\ n = Len(sanityLog)
                /\ pc = "exit"
                /\ exitCode = 2
                /\ i = k
                /\ \A f \in 1..Len(files) : files[f].pos < k
                /\ \A a \in 1..Len(alerts) : alerts[a] < k
                /\ Cardinality(RealLaunches) <= k
                /\ events = <<>>
                /\ \A j \in 1..(k - 1) : Processed(j)

\* the second storm failed its check after the first was written and alerted
C5_Witness ==
    /\ Len(sanityLog) = 2
    /\ ~sanityLog[2].passed
    /\ sanityLog[2].pos = 2
    /\ HasFile("startfile", 1)
    /\ alerts = <<1>>

\* the start file of a storm that declares one is written before the next pass
StartfileWritten ==
    (pc = "startfile" /\ pc' = "loop" /\ conf.startfile) =>
        \E n \in 1..Len(files') : files'[n].kind = "startfile" /\ files'[n].pos = i

\* C6: an event is signalled only after every storm of the list passed its
\* sanity check and had both holdvars files and its declared start file
\* written; a run that ends with exit code 2 has signalled nothing; a run
\* that ends with exit code 0 has processed every storm.
C6_EventsAfterAllStorms ==
    /\ [](/\ exitCode \in {-1, 0, 2}
          /\ events # <<>> =>
                /\ exitCode # 2
                /\ i = Len(stids) + 1
                /\ \A k \in 1..Len(stids) : Processed(k)
                /\ conf.startfile => HasFile("startfile", Len(stids))
          /\ exitCode = 2 => events = <<>> /\ pc = "exit"
          /\ exitCode = 0 => /\ pc = "exit"
                             /\ stids # <<>>
                             /\ \A k \in 1..Len(stids) : Processed(k))
    /\ [][StartfileWritten]_vars

\* a run over two storms ended with exit code 0 and signalled its events
C6_Witness ==
    /\ exitCode = 0
    /\ Len(stids) >= 2
    /\ Len(events) = 3
    /\ HasFile("startfile", 2)

\* the events that the flags of configuration c call for
ExpectedEvents(c) ==
    (IF c.run_gsi THEN <<"Analysis">> ELSE <<>>)
    \o (IF c.run_ocean /\ c.ocean_model \in {"HYCOM", "hycom"} THEN <<"Ocean">> ELSE <<>>)
    \o (IF c.run_wave /\ c.wave_model = "WW3" THEN <<"Wave">> ELSE <<>>)

\* C7: once the three flags are read, the events signalled are those of
\* the configuration of the last storm of the list: "Analysis" once iff
\* run_gsi, "Ocean" once iff run_ocean and ocean_model is HYCOM (compared
\* in upper case), "Wave" once iff run_wave and wave_model is WW3, each
\* decided on its own; before the loop has ended nothing is signalled.
C7_EventsOfLastStorm ==
    /\ pc \in {"completed", "exit"} /\ exitCode # 2 =>
          /\ conf.stid = stids[Len(stids)]
          /\ conf.storm_num = IF stids[Len(stids)] = fake_stid THEN 1
                              ELSE launches[Len(launches)].storm_num
          /\ events = ExpectedEvents(conf)
    /\ pc \notin {"ocean", "wave", "completed", "exit"} => events = <<>>

\* ocean enabled with another model, after an earlier configuration with
\* every flag on: only "Analysis" and "Wave" are signalled
C7_Witness ==
    /\ exitCode = 0
    /\ fakestorm_conf # NoConf
    /\ conf # fakestorm_conf
    /\ Hycom(fakestorm_conf)
    /\ conf.run_ocean /\ conf.ocean_model = "OTHER"
    /\ events = <<"Analysis", "Wave">>

----------------------------------------------------------------------------
(* Properties: the identifiers of a multistorm run *)

\* the entries of a well-formed comma separated list, each a one-symbol string
Entries(v) == [k \in 1..((Len(v) + 1) \div 2) |-> <<v[2 * k - 1]>>]

RECURSIVE OptionEntries(_, _)
\* the entries of the values of the options named in names, in command line order
OptionEntries(c, names) ==
    IF c = <<>> THEN <<>>
    ELSE (IF Head(c).name \in names THEN Entries(Head(c).arg) ELSE <<>>)
         \o OptionEntries(Tail(c), names)

GivenStorms == OptionEntries(cmdline, {"-m", "--multistorms"})
GivenBasins == OptionEntries(cmdline, {"-M", "--multibasins"})
RenumberGiven == \E k \in 1..Len(cmdline) : cmdline[k].name \in {"-n", "--renumber"}

NoDuplicates(l) == \A j, k \in 1..Len(l) : l[j] = l[k] => j = k

RECURSIVE FirstOccurrences(_)
FirstOccurrences(l) ==
    IF l = <<>> THEN <<>>
    ELSE LET front == FirstOccurrences(SubSeq(l, 1, Len(l) - 1))
         IN  IF Contains(front, l[Len(l)]) THEN front ELSE Append(front, l[Len(l)])

\* the winners that are not among the given storms, each once, in their order
NewWinners(given, winners) ==
    LET IsNew(x) == ~Contains(given, x)
    IN  FirstOccurrences(SelectSeq(winners, IsNew))

\* C8 as stated: with a basin list, the identifiers handed to
\* multistorm_parse_args are the -m entries in command line order followed
\* by the resolver's winners in their order, and no identifier occurs twice.
C8_MergedListDistinct ==
    (GivenBasins # <<>> /\ parseCalls # <<>>) =>
        /\ parseCalls[1] = GivenStorms \o NewWinners(GivenStorms, priorityCalls[1].result)
        /\ NoDuplicates(parseCalls[1])

\* C9: multistorm_priority is called once, with the basins of all -M
\* options, when a basin is given, and never otherwise; with -m options
\* only, the identifiers handed to multistorm_parse_args are the entries of
\* the -m values in command line order.
C9_ResolverCalledOnce ==
    /\ Len(priorityCalls) <= 1
    /\ GivenBasins = <<>> => priorityCalls = <<>>
    /\ \A n \in 1..Len(priorityCalls) : priorityCalls[n].basins = GivenBasins
    /\ (GivenBasins # <<>> /\ pc \notin {"getopt", "checkargs", "opts"}
            /\ opts # <<>> /\ nargs >= 4 /\ cycleOK) => Len(priorityCalls) = 1
    /\ (GivenBasins = <<>> /\ GivenStorms # <<>> /\ parseCalls # <<>>) =>
            parseCalls = <<GivenStorms>>

\* two -m options and no basin: the argument parser got their entries
C9_Witness ==
    /\ Len(cmdline) = 2
    /\ \A k \in 1..2 : cmdline[k].name \in {"-m", "--multistorms"}
    /\ cmdline[1] # cmdline[2]
    /\ parseCalls # <<>>
    /\ Len(parseCalls[1]) = 3
    /\ priorityCalls = <<>>

\* C10: the renumber value given to multistorm_priority is true when -m
\* entries are given with the basins, whether or not -n is given; with
\* basins only it is false iff -n is given.
C10_RenumberPassed ==
    \A n \in 1..Len(priorityCalls) :
        priorityCalls[n].renumber = IF GivenStorms # <<>> THEN TRUE ELSE ~RenumberGiven

\* -m, -M and -n together: the resolver is called with renumber true
C10_Witness ==
    /\ GivenStorms # <<>>
    /\ RenumberGiven
    /\ Len(priorityCalls) = 1
    /\ priorityCalls[1].renumber
    /\ renumber

----------------------------------------------------------------------------
(* Properties: the command line and the exit codes *)

NoCollaboratorCalled ==
    /\ priorityCalls = <<>>
    /\ parseCalls = <<>>
    /\ launches = <<>>

\* a collaborator, a check or a write of the run has failed
RunFailure ==
    \/ usagePrinted
    \/ launches # <<>> /\ conf = NoConf
    \/ \E k \in 1..Len(sanityLog) : ~sanityLog[k].passed
    \/ \E j \in 1..Len(stids) :
          \/ ~Processed(j)
          \/ j = Len(stids) /\ conf # NoConf /\ conf.startfile /\ ~HasFile("startfile", j)

\* what the check of len(args) does with a command line whose options
\* gnu_getopt has accepted
TooFewArgsAfterGetopt ==
    (nargs < 4 /\ GetoptAccepts(cmdline) /\ pc \notin {"getopt", "checkargs"}) =>
        /\ pc = "exit"
        /\ usagePrinted
        /\ exitCode = 2
        /\ NoCollaboratorCalled

\* C11: a command line with fewer than 4 positional arguments prints the
\* usage message and exits with code 2, whether or not the cycle is valid,
\* with no collaborator called; a command line with exactly 4 valid
\* positional arguments and no options ends with exit code 0 unless a
\* collaborator, a check or a write fails; every run that ends, ends with
\* exit code 0 or 2, and with 0 only when no step failed.
C11_ArgumentCount ==
    /\ (nargs < 4 /\ pc = "exit") =>
            usagePrinted /\ exitCode = 2 /\ NoCollaboratorCalled
    /\ (nargs = 4 /\ cycleOK /\ cmdline = <<>> /\ pc = "exit" /\ ~RunFailure) =>
            exitCode = 0
    /\ pc = "exit" => exitCode \in {0, 2}
    /\ pc # "exit" => exitCode = -1
    /\ exitCode = 0 => ~RunFailure

\* no step of main() after gnu_getopt has run
NoLaterStep ==
    /\ opts = <<>> /\ optIdx = 1
    /\ mslist = <<>> /\ mblist = <<>>
    /\ stids = <<>> /\ moreopts = <<>>
    /\ NoCollaboratorCalled
    /\ sanityLog = <<>> /\ alerts = <<>> /\ files = <<>> /\ events = <<>>

\* C12: when gnu_getopt rejects the command line, the run ends at once: the
\* usage message is printed, the exit code is not zero, and no later step of
\* main() is executed.
C12_RejectedOptions ==
    (~GetoptAccepts(cmdline) /\ pc # "getopt") =>
        /\ pc = "exit"
        /\ usagePrinted
        /\ exitCode \notin {-1, 0}
        /\ NoLaterStep

----------------------------------------------------------------------------
(* Properties: an empty set of storms *)

\* the multistorm options resolved to no identifier at all
ZeroEntities ==
    /\ pc \notin {"getopt", "checkargs", "opts"}
    /\ go_since_multistorm_sids
    /\ multi_sids = <<>>

\* multistorm_priority found no storm: it returned an empty list or gave up
NoWinners == \E n \in 1..Len(priorityCalls) : priorityCalls[n].result = <<>>

\* C13: when the multistorm options resolve to no identifier, or
\* multistorm_priority has no winner, the run goes no further than the
\* argument parser and ends with the usage message and exit code 2; nothing
\* is launched, the fake storm included, and no file is written.
C13_NoStormsIsUsageError ==
    (ZeroEntities \/ NoWinners) =>
        /\ pc \in {"parse", "exit"}
        /\ pc = "exit" => usagePrinted /\ exitCode = 2
        /\ launches = <<>>
        /\ files = <<>>

----------------------------------------------------------------------------
(* Properties: the steps of one pass *)

SanityPassed(k) ==
    \E n \in 1..Len(sanityLog) : sanityLog[n].pos = k /\ sanityLog[n].passed

FilesOf(k) == {n \in 1..Len(files) : files[n].pos = k}

\* nothing of the pass of storm k has happened yet
NothingLogged(k) ==
    /\ \A n \in 1..Len(sanityLog) : sanityLog[n].pos # k
    /\ \A n \in 1..Len(alerts) : alerts[n] # k
    /\ FilesOf(k) = {}

\* the place of a file among the files of one pass
Rank(kind) ==
    CASE kind = "holdvars" -> 1
      [] kind = "holdvars2" -> 2
      [] kind = "startfile" -> 3

\* the files are written storm by storm, and those of one storm in the
\* order holdvars, second holdvars, start file
FilesInOrder ==
    \A m, n \in 1..Len(files) :
        m < n => \/ files[m].pos < files[n].pos
                 \/ /\ files[m].pos = files[n].pos
                    /\ Rank(files[m].kind) < Rank(files[n].kind)

\* what has happened before a step of the pass of storm i is taken
StepOrder ==
    /\ launches' # launches /\ pc = "loop" =>
          /\ launches'[Len(launches')].stid = stids[i]
          /\ NothingLogged(i)
          /\ \A j \in 1..(i - 1) : Processed(j)
    /\ sanityLog' # sanityLog =>
          /\ sanityLog' = Append(sanityLog, [pos |-> i, passed |-> conf.sane])
          /\ conf.stid = stids[i]
          /\ NothingLogged(i)
          /\ \A j \in 1..(i - 1) : Processed(j)
    /\ alerts' # alerts =>
          /\ alerts' = Append(alerts, i)
          /\ SanityPassed(i)
          /\ \A n \in 1..Len(alerts) : alerts[n] # i
          /\ FilesOf(i) = {}
    /\ files' # files =>
          /\ Len(files') = Len(files) + 1
          /\ SubSeq(files', 1, Len(files)) = files
          /\ files'[Len(files')].pos = i
          /\ SanityPassed(i)
          /\ {files[n].kind : n \in FilesOf(i)} =
                CASE files'[Len(files')].kind = "holdvars" -> {}
                  [] files'[Len(files')].kind = "holdvars2" -> {"holdvars"}
                  [] files'[Len(files')].kind = "startfile" -> {"holdvars", "holdvars2"}
    /\ i' # i =>
          /\ i' = i + 1
          /\ Processed(i)
          /\ pc = "startfile"

\* C14: the storms are processed one at a time in the order of the list;
\* the steps of one storm come in the order configuration, sanity check,
\* alert, first holdvars file, second holdvars file, start file, and no step
\* of a storm is taken before the pass of the storm before it is complete.
C14_StepsInOrder == [](FilesInOrder) /\ [][StepOrder]_vars

\* two storms have gone through all the steps, alert and start file included
C14_Witness ==
    /\ pc = "loop"
    /\ i = 3
    /\ Len(stids) = 2
    /\ alerts = <<1, 2>>
    /\ Len(sanityLog) = 2
    /\ Len(files) = 6

----------------------------------------------------------------------------
(* Properties: the calls of launch *)

\* the pass of storm i has its configuration and is not finished
InPass == pc \in {"sanity", "alert", "holdvars", "holdvars2", "startfile"}

\* the value of global_storm_num in the pass of the storm at position j
StormNumOf(j) == IF go_since_multistorm_sids THEN j + 1 ELSE j

\* the launches made in the pass of the storm at position j
LaunchesFor(j) ==
    {k \in RealLaunches : /\ launches[k].stid = stids[j]
                          /\ launches[k].storm_num = StormNumOf(j)}

\* C15: launch is called once for the fake storm, in a multistorm run only
\* and before every other launch, and once in the pass of every storm whose
\* identifier is not the fake storm's; in the pass of the fake storm's
\* identifier launch is not called, and the fake storm's configuration, as
\* it was launched, is the one checked and written.
C15_LaunchOncePerStorm ==
    /\ Cardinality(FakeLaunches) <= 1
    /\ FakeLaunches # {} => go_since_multistorm_sids /\ 1 \in FakeLaunches
    /\ (pc \in {"loop", "ocean", "wave", "completed"} \/ InPass) =>
           Cardinality(FakeLaunches) = IF go_since_multistorm_sids THEN 1 ELSE 0
    /\ \A k \in RealLaunches :
           \E j \in 1..Len(stids) : j <= i /\ k \in LaunchesFor(j)
    /\ \A j \in 1..Len(stids) :
           IF stids[j] # fake_stid
           THEN LET n == Cardinality(LaunchesFor(j))
                IN  /\ (j < i \/ (j = i /\ InPass)) => n = 1
                    /\ n <= 1
                    /\ j > i => n = 0
           ELSE /\ \A k \in RealLaunches : launches[k].stid # stids[j]
                /\ (j = i /\ InPass) => conf = fakestorm_conf
                /\ \A n \in 1..Len(sanityLog) :
                       sanityLog[n].pos = j => sanityLog[n].passed = fakestorm_conf.sane
                /\ \A n \in FilesOf(j) :
                       /\ files[n].kind \in {"holdvars", "holdvars2"} =>
                              files[n].text = make_holdvars(fakestorm_conf)
                       /\ files[n].kind = "holdvars" =>
                              files[n].path = HoldvarsPath(fakestorm_conf)
                       /\ files[n].kind = "holdvars2" =>
                              files[n].path = HoldvarsPath2(fakestorm_conf)
                       /\ files[n].kind = "startfile" =>
                              files[n].text = StartContents(fakestorm_conf,
                                                  HoldvarsPath(fakestorm_conf))

\* after a real storm, the pass of the fake storm's identifier has written
\* both holdvars files without another launch
C15_Witness ==
    /\ pc = "startfile"
    /\ i = 2
    /\ stids[2] = fake_stid
    /\ stids[1] # fake_stid
    /\ Len(launches) = 2
    /\ Cardinality(FilesOf(2)) = 2
    /\ conf = fakestorm_conf

----------------------------------------------------------------------------
(* Properties: the alert of an operational run *)

\* RUN_ENVIR names an operational run
Operational == runEnvir \in {"NCO", "nco"}

AlertsFor(k) == {n \in 1..Len(alerts) : alerts[n] = k}

MessageChecksFor(k) == {n \in 1..Len(messages) : messages[n].pos = k}

\* the pass of storm k is beyond lines 224-229
AlertStepDone(k) == k < i \/ (k = i /\ pc \in {"holdvars", "holdvars2", "startfile"})

\* the files of the pass of storm i when the run is at step p of the pass,
\* given the configuration alone
FilesSoFar(p, c) ==
    CASE p \in {"sanity", "alert", "holdvars"} -> <<>>
      [] p = "holdvars2" ->
            <<File("holdvars", i, HoldvarsPath(c), make_holdvars(c))>>
      [] p = "startfile" ->
            <<File("holdvars", i, HoldvarsPath(c), make_holdvars(c)),
              File("holdvars2", i, HoldvarsPath2(c), make_holdvars(c))>>

FileOfThisPass(f) == f.pos = i

\* C16: for each storm DBNAlert is called at most once, and it is called
\* iff RUN_ENVIR is NCO (in any case of the letters) and the message file
\* exists; in a development run the file is not looked for and no alert is
\* sent; the files of a pass are those its configuration prescribes, whatever
\* RUN_ENVIR is.
C16_AlertIffOperational ==
    /\ \A k \in 1..Len(stids) :
          /\ Cardinality(AlertsFor(k)) <= 1
          /\ AlertsFor(k) # {} <=>
                 /\ Operational
                 /\ \E n \in MessageChecksFor(k) : messages[n].exists
          /\ (Operational /\ AlertStepDone(k)) => Cardinality(MessageChecksFor(k)) = 1
    /\ \A n \in 1..Len(alerts) : alerts[n] \in 1..Len(stids)
    /\ ~Operational => alerts = <<>> /\ messages = <<>>
    /\ InPass => SelectSeq(files, FileOfThisPass) = FilesSoFar(pc, conf)

\* an operational run: the message file of the first storm did not exist,
\* that of the second did and its alert was sent
C16_Witness ==
    /\ Operational
    /\ pc = "holdvars"
    /\ i = 2
    /\ alerts = <<2>>
    /\ messages = <<MessageCheck(1, FALSE), MessageCheck(2, TRUE)>>
    /\ Len(files) >= 2

----------------------------------------------------------------------------
(* Properties: the files of one pass *)

KindFilesOf(kind, k) == {n \in FilesOf(k) : files[n].kind = kind}

\* the two holdvars files of storm k: one each, at the storm label path and
\* at the out_prefix.RUN path, with the same text
TwoHoldvarsFiles(k) ==
    /\ Cardinality(KindFilesOf("holdvars", k)) = 1
    /\ Cardinality(KindFilesOf("holdvars2", k)) = 1
    /\ \A m \in KindFilesOf("holdvars", k), n \in KindFilesOf("holdvars2", k) :
          /\ files[m].path[2] = "stormlabel"
          /\ files[n].path[2] = "out_prefix.RUN"
          /\ files[m].text = files[n].text
          /\ m < n

\* a start file of storm k comes after both holdvars files and names the
\* first of them
StartfileNamesFirst(k) ==
    /\ Cardinality(KindFilesOf("startfile", k)) <= 1
    /\ \A s \in KindFilesOf("startfile", k) :
          /\ \A n \in FilesOf(k) : n <= s
          /\ \E m \in KindFilesOf("holdvars", k) :
                /\ files[s].text[3] = files[m].path
                /\ files[s].text[3][2] = "stormlabel"

\* the last step of a pass writes one start file when the configuration
\* declares it and nothing otherwise
StartfileIffDeclared ==
    (pc = "startfile" /\ pc' = "loop") =>
        IF conf.startfile
        THEN /\ Len(files') = Len(files) + 1
             /\ files'[Len(files')].kind = "startfile"
             /\ files'[Len(files')].pos = i
        ELSE files' = files

\* C17: every storm that passed its sanity check and whose pass is complete
\* has exactly two holdvars files, at the storm label path and at the
\* out_prefix.RUN path, with the same text; a start file is written iff the
\* configuration has the option startfile, after both holdvars files, and
\* it is filled in with the path of the first holdvars file.
C17_HoldvarsAndStartfile ==
    /\ [](/\ \A k \in 1..Len(stids) :
                /\ (k < i \/ (k = i /\ pc = "startfile")) =>
                       SanityPassed(k) /\ TwoHoldvarsFiles(k)
                /\ FilesOf(k) # {} => SanityPassed(k)
                /\ StartfileNamesFirst(k)
          /\ \A n \in 1..Len(files) :
                files[n].kind \in {"holdvars", "holdvars2", "startfile"})
    /\ [][StartfileIffDeclared]_vars

\* a complete pass with both holdvars files and the start file
C17_Witness ==
    /\ pc = "loop"
    /\ i = 2
    /\ TwoHoldvarsFiles(1)
    /\ KindFilesOf("startfile", 1) # {}
    /\ conf.startfile

----------------------------------------------------------------------------
(* Properties: the renumber flag *)

RenumberForms == {"-n", "--renumber"}

\* the flag is given, in either form and without a value, and every other
\* option of the command line is one gnu_getopt accepts
RenumberFlagGiven ==
    /\ \E k \in 1..Len(cmdline) : cmdline[k].name \in RenumberForms
    /\ \A k \in 1..Len(cmdline) :
          IF cmdline[k].name \in RenumberForms
          THEN ~cmdline[k].has
          ELSE GetoptAccepts(<<cmdline[k]>>)

\* C18: -n and --renumber are flags without a value: a command line that
\* gives either of them is accepted by the option parser, and at the end of
\* the loop over the options renumber is False.
C18_RenumberIsFlag ==
    RenumberFlagGiven =>
        /\ pc # "getopt" => Len(opts) = Len(cmdline)
        /\ (pc = "exit" /\ nargs >= 4 /\ cycleOK) => parseCalls # <<>> \/ priorityCalls # <<>>
        /\ (pc = "opts" /\ optIdx > Len(opts)) => ~renumber

----------------------------------------------------------------------------
(* Properties: what the renumber flag can change *)

IsNoRenumberForm(o) == o.name \notin RenumberForms

\* the command line with its -n and --renumber options taken out
WithoutRenumber(c) == SelectSeq(c, IsNoRenumberForm)

\* the storms the argument parser is asked for in a run without basins
StormsAsked ==
    IF OptionEntries(WithoutRenumber(cmdline), {"-m", "--multistorms"}) # <<>>
    THEN OptionEntries(WithoutRenumber(cmdline), {"-m", "--multistorms"})
    ELSE <<argStid>>

MultistormAsked ==
    OptionEntries(WithoutRenumber(cmdline), {"-m", "--multistorms"}) # <<>>

\* what the argument parser can answer to StormsAsked
ParserAnswers ==
    IF MultistormAsked
    THEN MultistormParseResults(StormsAsked)
    ELSE {[stids |-> <<argStid>>, fake_stid |-> None, moreopts |-> OptionSets(1)]}

\* C19: in a run without -M/--multibasins the renumber flag, given as -n,
\* changes nothing that a collaborator sees. Stated for one run: multistorm_priority, the
\* only reader of renumber, is not called, and every call that is made has
\* arguments that are given by the command line without its -n options, the
\* storm argument and the answers of the collaborators alone -- the storms
\* asked of the argument parser, the storm, override set, fake storm
\* configuration and storm_num of every launch, and the files of a pass --
\* so that two runs that differ in -n only, with the same answers, make the
\* same calls.
C19_RenumberOnlyForResolver ==
    (/\ OptionEntries(cmdline, {"-M", "--multibasins"}) = <<>>
     /\ \A k \in 1..Len(cmdline) : cmdline[k].name # "--renumber") =>
        /\ priorityCalls = <<>>
        /\ parseCalls \in {<<>>, <<StormsAsked>>}
        /\ pc \in {"fakelaunch", "loop", "ocean", "wave", "completed"} \/ InPass =>
               parseCalls = <<StormsAsked>>
        /\ parseCalls = <<>> => launches = <<>> /\ stids = <<>> /\ files = <<>>
        /\ (pc = "parse" \/ parseCalls # <<>>) =>
               go_since_multistorm_sids = MultistormAsked
        /\ (stids # <<>> \/ moreopts # <<>>) =>
               [stids |-> stids, fake_stid |-> fake_stid, moreopts |-> moreopts]
                   \in ParserAnswers
        /\ \A k \in 1..Len(launches) :
               IF launches[k].fakestorm
               THEN /\ k = 1 /\ MultistormAsked
                    /\ launches[k] = LaunchCall(fake_stid, moreopts[Len(moreopts)],
                                                TRUE, NoConf, 1)
               ELSE \E j \in 1..Len(stids) :
                       launches[k] = LaunchCall(stids[j], moreopts[j], FALSE,
                                         fakestorm_conf,
                                         IF MultistormAsked THEN j + 1 ELSE j)
        /\ InPass => SelectSeq(files, FileOfThisPass) = FilesSoFar(pc, conf)
        /\ events # <<>> => \E n \in 0..Len(ExpectedEvents(conf)) :
                                events = SubSeq(ExpectedEvents(conf), 1, n)

\* a run with -n and two -m options has launched the fake storm and a real one
C19_Witness ==
    /\ RenumberGiven
    /\ ~renumber
    /\ Len(cmdline) = 3
    /\ MultistormAsked
    /\ OptionEntries(cmdline, {"-M", "--multibasins"}) = <<>>
    /\ Len(launches) = 2
    /\ pc = "sanity"

----------------------------------------------------------------------------
(* Properties: the override sets *)

\* every launch of a real storm has the override set of the storm's own
\* position, which is within the list; the fake storm has the last set
OwnOverrides ==
    /\ \A k \in RealLaunches :
          \E j \in 1..Len(stids) :
              /\ j <= i
              /\ j <= Len(moreopts)
              /\ launches[k].stid = stids[j]
              /\ launches[k].storm_num = StormNumOf(j)
              /\ launches[k].moreopt = moreopts[j]
    /\ \A k \in FakeLaunches :
          /\ moreopts # <<>>
          /\ launches[k].moreopt = moreopts[Len(moreopts)]

\* the loop of a multistorm run has gone through the whole list, so every
\* index it used was within moreopts
LoopWentThrough ==
    /\ go_since_multistorm_sids
    /\ pc \in {"loop", "ocean", "wave", "completed"}
    /\ i > Len(stids)

\* the positions of the list whose identifier is not the fake storm's
RealPositions == {j \in 1..Len(stids) : stids[j] # fake_stid}

\* C20 as stated: every real storm is launched with the override set of its
\* own position and the fake storm with the last one, and in a multistorm
\* run the loop gets through the list without an index beyond moreopts only
\* if moreopts has at least as many elements as the list of storms.
C20_OverridesAsLongAsStorms ==
    /\ OwnOverrides
    /\ LoopWentThrough => Len(moreopts) >= Len(stids)

\* C20 amended: every real storm is launched with the override set of its
\* own position and the fake storm with the last one, and in a multistorm
\* run the loop gets through the list without an index beyond moreopts only
\* if moreopts reaches the position of the last storm that is not the fake
\* storm; the pass of the fake storm's identifier reads no override set.
C20_OverridesReachLastRealStorm ==
    /\ OwnOverrides
    /\ LoopWentThrough => \A j \in RealPositions : j <= Len(moreopts)
    /\ (InPass /\ stids[i] # fake_stid) => i <= Len(moreopts)

\* two real storms were launched with their own sets, the fake storm with
\* the third and last one
C20_Witness ==
    /\ LoopWentThrough
    /\ Len(stids) = 2
    /\ RealPositions = {1, 2}
    /\ Len(moreopts) = 3
    /\ Len(launches) = 3
    /\ launches[1].moreopt = moreopts[3]
    /\ launches[2].moreopt = moreopts[1]
    /\ launches[3].moreopt = moreopts[2]

====
